---- MODULE Spec2Model ----
(***************************************************************************)
(* X-ray daily light curves: a model of the two command-line scripts       *)
(* swift_lc.py (Swift/BAT) and maxi_lc.py (MAXI).                          *)
(*                                                                         *)
(* One behaviour is one run of one script.  The external collaborators     *)
(* (argparse, pandas.read_csv, SIMBAD, astropy's Angle.to_string,          *)
(* matplotlib) are modelled by their outcome: what they return or raise    *)
(* and which calls reach them.                                             *)
(*                                                                         *)
(* Units.  Floats are scaled integers: a Swift rate is in units of 0.001,  *)
(* a Swift error in units of 0.01 (the threshold 0.04 is 4), a y-axis      *)
(* limit in units of 0.0001 (so that 1.1 * rate is 11 * rate and -0.005    *)
(* is -50).  Right ascension is in milliseconds of time, declination in    *)
(* milliarcseconds with the sign kept apart (astropy reads the sign with   *)
(* copysign, so -0 degrees is negative).                                   *)
(*                                                                         *)
(* Python's None is the empty tuple and a present value v is <<v>>.        *)
(***************************************************************************)
EXTENDS Integers, Sequences, FiniteSets

VARIABLES
    script,        \* which file's __main__ runs: "swift" or "maxi"
    pc,            \* position of the run
    source_name,   \* args.source, a sequence of characters
    args,          \* [start, stop]: the optional -start / -stop values
    url_i,         \* get_swift_data: index of the next url of the for loop
    attempts,      \* every pd.read_csv call so far: [url, outcome], in order
    swift_data,    \* the value get_swift_data returned
    stdout,        \* the messages printed so far
    fault,         \* the exception that escaped __main__, "none" if none
    errorbars,     \* plot_swift_lc: the ax.errorbar calls so far
    xlim,          \* plot_swift_lc: the argument of ax.set_xlim
    ylim,          \* plot_swift_lc: the argument of ax.set_ylim
    shown,         \* whether plt.show() was reached
    object_id,     \* get_maxi_id: what Simbad.query_object returned
    maxi_id,       \* the module-level maxi_id of maxi_lc.py
    data,          \* plot_maxi_lc: the dataframe fetch_maxi_data returned
    axes           \* plot_maxi_lc: the plot_light_curve calls so far

vars == <<script, pc, source_name, args, url_i, attempts, swift_data, stdout,
          fault, errorbars, xlim, ylim, shown, object_id, maxi_id, data, axes>>

swift_vars == <<url_i, swift_data, errorbars, xlim, ylim>>
maxi_vars == <<object_id, maxi_id, data, axes>>

None == <<>>
Some(v) == <<v>>

\* ------------------------------------------------------------------ bounds

\* The longest table a fetch returns.
MaxRows == 2

\* The inputs of a run.
SourceNames == {<<"G", "X">>, <<"G", " ", "X">>}
StartValues == {0, 2}
StopValues == {0, 3}
Times == {1, 2}
Rates == {-1, 0, 2}
Errors == {3, 4, 5}

\* All sequences over S of length 1..n (read_csv raises EmptyDataError on a
\* file with no rows, so a parsed table has at least one).
RECURSIVE SeqsUpTo(_, _)
SeqsUpTo(S, n) ==
    IF n = 0 THEN {}
    ELSE LET shorter == SeqsUpTo(S, n - 1)
         IN  {<<x>> : x \in S} \cup shorter
               \cup {Append(s, x) : s \in {t \in shorter : Len(t) = n - 1}, x \in S}

\* A Swift table: rows <<time, rate, error>> (columns 0, 1, 2).
SwiftRows == Times \X Rates \X Errors
SwiftTables == SeqsUpTo(SwiftRows, MaxRows)

\* ------------------------------------------------------------ swift_lc.py

\* source_name.replace(" ", "")
RECURSIVE source_id(_)
source_id(name) ==
    IF name = <<>> THEN <<>>
    ELSE IF Head(name) = " " THEN source_id(Tail(name))
         ELSE <<Head(name)>> \o source_id(Tail(name))

\* The candidate URLs, in the order of the list.
urls(name) ==
    << [path |-> "results/transients/weak/", id |-> source_id(name)],
       [path |-> "results/transients/", id |-> source_id(name)] >>

Column(table, c) == [i \in 1..Len(table) |-> table[i][c]]

RECURSIVE SeqMin(_)
SeqMin(s) == IF Len(s) = 1 THEN s[1]
             ELSE LET m == SeqMin(Tail(s)) IN IF s[1] < m THEN s[1] ELSE m

RECURSIVE SeqMax(_)
SeqMax(s) == IF Len(s) = 1 THEN s[1]
             ELSE LET m == SeqMax(Tail(s)) IN IF s[1] > m THEN s[1] ELSE m

ErrThreshold == 4
YBottom == -50

\* Variant: the error threshold taken inclusive.
mask_le(table) == [i \in 1..Len(table) |-> table[i][2] > 0 /\ table[i][3] <= ErrThreshold]

\* mask = (data[1] > 0) & (data[2] < 0.04)
mask(table) == [i \in 1..Len(table) |-> table[i][2] > 0 /\ table[i][3] < ErrThreshold]

\* series[mask]: boolean indexing keeps the positions where the mask is True,
\* in order.
RECURSIVE Masked(_, _)
Masked(series, m) ==
    IF Len(series) = 0 THEN <<>>
    ELSE (IF m[1] THEN <<series[1]>> ELSE <<>>)
           \o Masked(Tail(series), Tail(m))

\* Variant: `args.start if args.start else ...`, which takes 0 as absent.
tstart_truthy(a, table) ==
    IF a.start # None /\ a.start[1] # 0 THEN a.start[1] ELSE SeqMin(Column(table, 1))

\* args.start if args.start is not None else min(swift_data[0])
tstart(a, table) ==
    IF a.start # None THEN a.start[1] ELSE SeqMin(Column(table, 1))

\* args.stop if args.stop is not None else max(swift_data[0])
tstop(a, table) ==
    IF a.stop # None THEN a.stop[1] ELSE SeqMax(Column(table, 1))

Init ==
    /\ script \in {"swift", "maxi"}
    /\ pc = "main"
    /\ source_name = <<>>
    /\ args = [start |-> None, stop |-> None]
    /\ url_i = 1
    /\ attempts = <<>>
    /\ swift_data = None
    /\ stdout = <<>>
    /\ fault = "none"
    /\ errorbars = <<>>
    /\ xlim = None
    /\ ylim = None
    /\ shown = FALSE
    /\ object_id = None
    /\ maxi_id = None
    /\ data = None
    /\ axes = <<>>

\* __main__, lines 73-80: parse the command line and call get_swift_data.
swift_main ==
    /\ script = "swift" /\ pc = "main"
    /\ \E n \in SourceNames,
          a \in {None} \cup {Some(v) : v \in StartValues},
          b \in {None} \cup {Some(v) : v \in StopValues} :
            /\ source_name' = n
            /\ args' = [start |-> a, stop |-> b]
    /\ pc' = "get_swift_data"
    /\ UNCHANGED <<script, attempts, stdout, fault, shown>>
    /\ UNCHANGED swift_vars
    /\ UNCHANGED maxi_vars

\* Variant: a successful fetch does not leave the loop.
get_swift_data_try_no_return ==
    /\ script = "swift" /\ pc = "get_swift_data"
    /\ url_i <= Len(urls(source_name))
    /\ \E outcome \in {None} \cup {Some(t) : t \in SwiftTables} :
         /\ attempts' = Append(attempts, [url |-> urls(source_name)[url_i], outcome |-> outcome])
         /\ IF outcome # None
            THEN /\ stdout' = Append(stdout, "Successfully fetched data from")
                 /\ swift_data' = outcome
                 /\ url_i' = url_i + 1
                 /\ pc' = IF url_i = Len(urls(source_name)) THEN "main_check" ELSE pc
            ELSE /\ stdout' = Append(stdout, "did not work. Trying a different one.")
                 /\ url_i' = url_i + 1
                 /\ UNCHANGED <<swift_data, pc>>
    /\ UNCHANGED <<script, source_name, args, fault, errorbars, xlim, ylim, shown>>
    /\ UNCHANGED maxi_vars

\* Variant: a failed fetch returns None at once, without the next url.
get_swift_data_try_no_fallback ==
    /\ script = "swift" /\ pc = "get_swift_data"
    /\ url_i <= Len(urls(source_name))
    /\ \E outcome \in {None} \cup {Some(t) : t \in SwiftTables} :
         /\ attempts' = Append(attempts, [url |-> urls(source_name)[url_i], outcome |-> outcome])
         /\ IF outcome # None
            THEN /\ stdout' = Append(stdout, "Successfully fetched data from")
                 /\ swift_data' = outcome
                 /\ pc' = "main_check"
                 /\ UNCHANGED url_i
            ELSE /\ stdout' = Append(stdout, "Could not fetch data for")
                 /\ swift_data' = None
                 /\ pc' = "main_check"
                 /\ UNCHANGED url_i
    /\ UNCHANGED <<script, source_name, args, fault, errorbars, xlim, ylim, shown>>
    /\ UNCHANGED maxi_vars

\* get_swift_data, lines 20-27: one iteration of `for url in urls`.  The
\* read_csv call either returns a table, which is returned at once, or
\* raises; the bare except catches whatever it raises and the loop goes on.
get_swift_data_try ==
    /\ script = "swift" /\ pc = "get_swift_data"
    /\ url_i <= Len(urls(source_name))
    /\ \E outcome \in {None} \cup {Some(t) : t \in SwiftTables} :
         /\ attempts' = Append(attempts, [url |-> urls(source_name)[url_i], outcome |-> outcome])
         /\ IF outcome # None
            THEN /\ stdout' = Append(stdout, "Successfully fetched data from")
                 /\ swift_data' = outcome
                 /\ pc' = "main_check"
                 /\ UNCHANGED url_i
            ELSE /\ stdout' = Append(stdout, "did not work. Trying a different one.")
                 /\ url_i' = url_i + 1
                 /\ UNCHANGED <<swift_data, pc>>
    /\ UNCHANGED <<script, source_name, args, fault, errorbars, xlim, ylim, shown>>
    /\ UNCHANGED maxi_vars

\* Variant: running out of urls raises instead of returning None.
get_swift_data_exhausted_raises ==
    /\ script = "swift" /\ pc = "get_swift_data"
    /\ url_i > Len(urls(source_name))
    /\ stdout' = Append(stdout, "Could not fetch data for")
    /\ fault' = "RuntimeError"
    /\ pc' = "crashed"
    /\ UNCHANGED <<script, source_name, args, url_i, attempts, swift_data, errorbars,
                   xlim, ylim, shown>>
    /\ UNCHANGED maxi_vars

\* get_swift_data, lines 29-30: the loop ran out of urls.
get_swift_data_exhausted ==
    /\ script = "swift" /\ pc = "get_swift_data"
    /\ url_i > Len(urls(source_name))
    /\ stdout' = Append(stdout, "Could not fetch data for")
    /\ swift_data' = None
    /\ pc' = "main_check"
    /\ UNCHANGED <<script, source_name, args, url_i, attempts, fault, errorbars,
                   xlim, ylim, shown>>
    /\ UNCHANGED maxi_vars

\* plot_swift_lc, lines 33-69.  max(rate) at line 54 raises ValueError on an
\* empty sequence: the two errorbar calls and set_xlim have happened by
\* then, set_ylim and plt.show() have not.
plot_swift_lc(table, t0, t1) ==
    LET m == mask(table)
        time == Masked(Column(table, 1), m)
        rate == Masked(Column(table, 2), m)
        error == Masked(Column(table, 3), m)
    IN  /\ errorbars' = << [x |-> time, y |-> rate, yerr |-> Some(error)],
                           [x |-> time, y |-> rate, yerr |-> None] >>
        /\ xlim' = Some(<<t0, t1>>)
        /\ IF rate = <<>>
           THEN /\ fault' = "ValueError"
                /\ pc' = "crashed"
                /\ UNCHANGED <<ylim, shown>>
           ELSE /\ ylim' = Some(<<YBottom, 11 * SeqMax(rate)>>)
                /\ shown' = TRUE
                /\ pc' = "done"
                /\ UNCHANGED fault

\* __main__, lines 82-89.
swift_main_check ==
    /\ script = "swift" /\ pc = "main_check"
    /\ IF swift_data # None
       THEN /\ plot_swift_lc(swift_data[1], tstart(args, swift_data[1]),
                             tstop(args, swift_data[1]))
            /\ UNCHANGED stdout
       ELSE /\ stdout' = Append(stdout, "No data available.")
            /\ pc' = "done"
            /\ UNCHANGED <<fault, errorbars, xlim, ylim, shown>>
    /\ UNCHANGED <<script, source_name, args, url_i, attempts, swift_data>>
    /\ UNCHANGED maxi_vars

\* ------------------------------------------------------------- maxi_lc.py

\* The sky positions SIMBAD resolves a name to: right ascension in
\* milliseconds of time, declination as a sign and milliarcseconds.
Sexa(a, b, milli) == (a * 60 + b) * 60000 + milli

RightAscensions ==
    {Sexa(0, 0, 0), Sexa(5, 34, 31940), Sexa(19, 58, 21680), Sexa(23, 59, 59990)}
Declinations ==
    {Sexa(0, 30, 0), Sexa(5, 6, 42000), Sexa(22, 0, 52200), Sexa(35, 12, 5780),
     Sexa(89, 59, 59995)}
Positions ==
    [ra : RightAscensions, dec : [sign : {1, -1}, mas : Declinations]]

\* Simbad.query_object: one row, or no match, which the library reports as
\* None (astroquery before 0.4.8) or as a table with no rows (since).
SimbadResults ==
    {[kind |-> "None"], [kind |-> "empty"]}
      \cup {[kind |-> "row", pos |-> p] : p \in Positions}

Digit(d) == <<"0", "1", "2", "3", "4", "5", "6", "7", "8", "9">>[d + 1]

RECURSIVE NatDigits(_)
NatDigits(n) ==
    IF n < 10 THEN <<Digit(n)>> ELSE NatDigits(n \div 10) \o <<Digit(n % 10)>>

RECURSIVE ZeroFill(_, _)
ZeroFill(s, width) ==
    IF Len(s) >= width THEN s ELSE ZeroFill(<<"0">> \o s, width)

\* The seconds at which astropy carries into the minutes with precision=2:
\* 60 - 10^-2, in thousandths.
RoundingThresh == 60000 - 10

\* astropy's sexagesimal_to_string with sep="" and precision=2, then
\* Angle.to_string's alwayssign.  The leading field is formatted
\* f"{copysign(v0, sign):0{pad}.0f}" with pad 3 for a negative angle and 2
\* otherwise (0 without pad=True), the minutes "02d", the seconds "05.2f"
\* (rounded here half up from thousandths).
to_string(sign, milli, alwayssign, pad) ==
    LET s0 == milli % 60000
        m0 == (milli \div 60000) % 60
        h0 == milli \div 3600000
        s1 == IF s0 >= RoundingThresh THEN 0 ELSE s0
        m1 == IF s0 >= RoundingThresh THEN m0 + 1 ELSE m0
        m2 == IF m1 >= 60 THEN 0 ELSE m1
        h2 == IF m1 >= 60 THEN h0 + 1 ELSE h0
        width == IF pad THEN (IF sign = -1 THEN 3 ELSE 2) ELSE 0
        lead == IF sign = -1
                THEN <<"-">> \o ZeroFill(NatDigits(h2), width - 1)
                ELSE ZeroFill(NatDigits(h2), width)
        cs == (s1 + 5) \div 10
        body == lead \o ZeroFill(NatDigits(m2), 2)
                  \o ZeroFill(NatDigits(cs \div 100), 2) \o <<".">>
                  \o ZeroFill(NatDigits(cs % 100), 2)
    IN  IF alwayssign /\ Head(body) # "-" THEN <<"+">> \o body ELSE body

\* coord.ra.to_string(unit=u.hour, sep="", precision=2, pad=True)
ra_str(pos) == to_string(1, pos.ra, FALSE, TRUE)

\* Variant: alwayssign left out.
dec_str_unsigned(pos) == to_string(pos.dec.sign, pos.dec.mas, FALSE, TRUE)

\* coord.dec.to_string(unit=u.degree, sep="", precision=2, alwayssign=True, pad=True)
dec_str(pos) == to_string(pos.dec.sign, pos.dec.mas, TRUE, TRUE)

Slice(s, n) == SubSeq(s, 1, IF n < Len(s) THEN n ELSE Len(s))

\* f"{ra_str[0][0:4]}{dec_str[0][0:4]}"
maxi_id_string(pos) == Slice(ra_str(pos), 4) \o Slice(dec_str(pos), 4)

\* A MAXI file: rows of NCols numbers; a file of another shape has
\* NCols - 1.  A cell's value tells its column, and a row's key k its sign
\* (the archive's background-subtracted fluxes are negative at times).
NCols == 9
MaxiRowKeys == {-1, 2}
MaxiRow(k, w) == [c \in 1..w |-> IF c = 1 THEN 100 + k ELSE k * c]
MaxiTables ==
    SeqsUpTo({MaxiRow(k, NCols) : k \in MaxiRowKeys}, MaxRows)
      \cup SeqsUpTo({MaxiRow(k, NCols - 1) : k \in MaxiRowKeys}, MaxRows)

\* data.columns = [...]
columns ==
    <<"MJD", "2-20keV", "2-20keV_err", "2-4keV", "2-4keV_err", "4-10keV",
      "4-10keV_err", "10-20keV", "10-20keV_err">>

ColumnIndex(name) == CHOOSE i \in 1..Len(columns) : columns[i] = name

\* data[name]
NamedColumn(table, name) == Column(table, ColumnIndex(name))

energy_bands ==
    << <<"2-4keV", "2-4keV_err", "C0">>,
       <<"4-10keV", "4-10keV_err", "C1">>,
       <<"10-20keV", "10-20keV_err", "C2">>,
       <<"2-20keV", "2-20keV_err", "C3">> >>

\* __main__, lines 106-110.
maxi_main ==
    /\ script = "maxi" /\ pc = "main"
    /\ \E n \in SourceNames : source_name' = n
    /\ pc' = "get_maxi_id"
    /\ UNCHANGED <<script, args, attempts, stdout, fault, shown>>
    /\ UNCHANGED swift_vars
    /\ UNCHANGED maxi_vars

\* get_maxi_id, lines 16-35, called at line 111.  With no match,
\* object_id['ra'] raises TypeError on None (line 22) and ra_print[0] raises
\* IndexError on the empty array (line 31); nothing catches either.
get_maxi_id ==
    /\ script = "maxi" /\ pc = "get_maxi_id"
    /\ \E result \in SimbadResults :
         /\ object_id' = Some(result)
         /\ CASE result.kind = "None" ->
                  /\ stdout' = Append(stdout, "Getting Coordinates for")
                  /\ fault' = "TypeError"
                  /\ pc' = "crashed"
                  /\ UNCHANGED maxi_id
             [] result.kind = "empty" ->
                  /\ stdout' = Append(stdout, "Getting Coordinates for")
                  /\ fault' = "IndexError"
                  /\ pc' = "crashed"
                  /\ UNCHANGED maxi_id
             [] result.kind = "row" ->
                  /\ stdout' = stdout \o <<"Getting Coordinates for", "Found",
                                           "Fetching MAXI data ...">>
                  /\ maxi_id' = Some(maxi_id_string(result.pos))
                  /\ pc' = "plot_maxi_lc"
                  /\ UNCHANGED fault
    /\ UNCHANGED <<script, source_name, args, attempts, shown, data, axes>>
    /\ UNCHANGED swift_vars

\* Variant: a failed fetch or parse yields None and plot_maxi_lc returns.
fetch_maxi_data_quiet ==
    /\ script = "maxi" /\ pc = "plot_maxi_lc"
    /\ \E outcome \in {None} \cup {Some(t) : t \in MaxiTables} :
         /\ attempts' = Append(attempts, [url |-> [path |-> "star_data/J", id |-> maxi_id[1]],
                                          outcome |-> outcome])
         /\ IF outcome # None /\ Len(outcome[1][1]) = Len(columns)
            THEN /\ data' = outcome
                 /\ stdout' = Append(stdout, "Data fetched from")
                 /\ pc' = "plot_bands"
            ELSE /\ pc' = "done"
                 /\ UNCHANGED <<data, stdout>>
         /\ UNCHANGED fault
    /\ UNCHANGED <<script, source_name, args, shown, object_id, maxi_id, axes>>
    /\ UNCHANGED swift_vars

\* plot_maxi_lc, lines 67-72, with fetch_maxi_data, lines 43-50.  read_csv
\* raises on a failed fetch, and the assignment to data.columns raises
\* ValueError on a table that has not 9 columns; neither function catches,
\* so `data is None` at line 68 is never true.
fetch_maxi_data ==
    /\ script = "maxi" /\ pc = "plot_maxi_lc"
    /\ \E outcome \in {None} \cup {Some(t) : t \in MaxiTables} :
         /\ attempts' = Append(attempts, [url |-> [path |-> "star_data/J", id |-> maxi_id[1]],
                                          outcome |-> outcome])
         /\ IF outcome = None
            THEN /\ fault' = "URLError"
                 /\ pc' = "crashed"
                 /\ UNCHANGED <<data, stdout>>
            ELSE IF Len(outcome[1][1]) # Len(columns)
            THEN /\ fault' = "ValueError"
                 /\ pc' = "crashed"
                 /\ UNCHANGED <<data, stdout>>
            ELSE /\ data' = outcome
                 /\ stdout' = Append(stdout, "Data fetched from")
                 /\ pc' = "plot_bands"
                 /\ UNCHANGED fault
    /\ UNCHANGED <<script, source_name, args, shown, object_id, maxi_id, axes>>
    /\ UNCHANGED swift_vars

\* Variant: rows with a non-positive value are dropped, as for Swift.
plot_light_curve_positive(table, band) ==
    LET keep == [i \in 1..Len(table) |-> table[i][ColumnIndex(band[1])] > 0]
    IN  [x |-> Masked(NamedColumn(table, "MJD"), keep),
         y |-> Masked(NamedColumn(table, band[1]), keep),
         yerr |-> Masked(NamedColumn(table, band[2]), keep),
         color |-> band[3], label |-> band[1]]

\* plot_light_curve(ax, data["MJD"], data[y_col], data[yerr_col], color, y_col)
plot_light_curve(table, band) ==
    [x |-> NamedColumn(table, "MJD"),
     y |-> NamedColumn(table, band[1]),
     yerr |-> NamedColumn(table, band[2]),
     color |-> band[3], label |-> band[1]]

\* plot_maxi_lc, lines 85-90: one iteration of the loop over the bands.
plot_maxi_lc_band ==
    /\ script = "maxi" /\ pc = "plot_bands"
    /\ Len(axes) < Len(energy_bands)
    /\ axes' = Append(axes, plot_light_curve(data[1], energy_bands[Len(axes) + 1]))
    /\ UNCHANGED <<script, pc, source_name, args, attempts, stdout, fault, shown,
                   object_id, maxi_id, data>>
    /\ UNCHANGED swift_vars

\* plot_maxi_lc, lines 93-100.
plot_maxi_lc_show ==
    /\ script = "maxi" /\ pc = "plot_bands"
    /\ Len(axes) = Len(energy_bands)
    /\ shown' = TRUE
    /\ pc' = "done"
    /\ UNCHANGED <<script, source_name, args, attempts, stdout, fault>>
    /\ UNCHANGED swift_vars
    /\ UNCHANGED maxi_vars

Next ==
    \/ swift_main
    \/ get_swift_data_try
    \/ get_swift_data_exhausted
    \/ swift_main_check
    \/ maxi_main
    \/ get_maxi_id
    \/ fetch_maxi_data
    \/ plot_maxi_lc_band
    \/ plot_maxi_lc_show

Spec == Init /\ [][Next]_vars

\* -------------------------------------------------------------- properties

WeakPath == "results/transients/weak/"
StandardPath == "results/transients/"

\* get_swift_data has returned to __main__.
SwiftReturned == script = "swift" /\ pc \in {"main_check", "done", "crashed"}

\* Every candidate URL was fetched and every fetch failed.
AllFailed ==
    /\ script = "swift"
    /\ Len(attempts) = 2
    /\ attempts[1].outcome = None
    /\ attempts[2].outcome = None

\* C1: when get_swift_data returns after the fetch of the weak path failed,
\* the standard path was fetched next, and if that fetch succeeded the
\* value returned is the table parsed from it and no error has escaped.
C1_FallbackReturnsSecond ==
    (script = "swift" /\ pc = "main_check" /\ attempts[1].outcome = None)
      => /\ attempts[1].url.path = WeakPath
         /\ Len(attempts) = 2
         /\ attempts[2].url.path = StandardPath
         /\ attempts[2].outcome # None
              => (swift_data = attempts[2].outcome /\ fault = "none")

C1_Witness ==
    /\ script = "swift" /\ pc = "main_check"
    /\ Len(attempts) = 2
    /\ attempts[1].outcome = None
    /\ attempts[2].outcome # None
    /\ swift_data # None

\* C2: once both fetches have failed, get_swift_data returns None without
\* raising, "No data available." is the last thing printed, nothing is ever
\* plotted, and the run goes on until it ends normally.
C2_BothFailNoPlot ==
    AllFailed
      => /\ fault = "none"
         /\ errorbars = <<>> /\ xlim = None /\ ylim = None /\ ~shown
         /\ pc \in {"get_swift_data", "main_check", "done"}
         /\ SwiftReturned => swift_data = None
         /\ pc = "done" => stdout[Len(stdout)] = "No data available."
         /\ pc # "done" => ENABLED Next

C2_Witness ==
    /\ AllFailed /\ pc = "done"
    /\ swift_data = None
    /\ stdout[Len(stdout)] = "No data available."

\* SIMBAD found no match for the source name.
NoMatch ==
    /\ script = "maxi"
    /\ object_id # None
    /\ object_id[1].kind \in {"None", "empty"}

\* C3 (the claim as stated): with no match, no identifier is produced, no
\* fetch and no plot are performed, and the run ends without an unhandled
\* fault.
C3_NoMatchEndsCleanly ==
    NoMatch
      => /\ maxi_id = None /\ attempts = <<>> /\ axes = <<>> /\ ~shown
         /\ fault = "none"
         /\ pc # "crashed"

\* The part of C3 the code keeps: no identifier, no fetch, no plot.
C3_NoMatchNoIdNoFetchNoPlot ==
    NoMatch => (maxi_id = None /\ attempts = <<>> /\ axes = <<>> /\ ~shown)

\* The rows of a Swift table the claim keeps.
Kept(table) ==
    {i \in 1..Len(table) : table[i][2] > 0 /\ table[i][3] < 4}

StrictlyIncreasing(f) ==
    \A i, j \in DOMAIN f : i < j => f[i] < f[j]

\* C4: both errorbar calls of plot_swift_lc draw exactly the rows with
\* rate > 0 and err < 0.04, each once, in their order in the table.
C4_PlottedRowsAreTheKeptRows ==
    errorbars # <<>>
      => LET table == swift_data[1] IN
         \A c \in 1..Len(errorbars) :
            LET call == errorbars[c] IN
            /\ Len(call.x) = Cardinality(Kept(table))
            /\ Len(call.y) = Len(call.x)
            /\ call.yerr # None => Len(call.yerr[1]) = Len(call.x)
            /\ \E f \in [1..Len(call.x) -> Kept(table)] :
                 /\ StrictlyIncreasing(f)
                 /\ \A i \in 1..Len(call.x) :
                      /\ call.x[i] = table[f[i]][1]
                      /\ call.y[i] = table[f[i]][2]
                      /\ call.yerr # None => call.yerr[1][i] = table[f[i]][3]

\* A row dropped for its rate followed by a kept row.
C4_Witness ==
    /\ errorbars # <<>>
    /\ Len(swift_data[1]) = 2
    /\ swift_data[1][1][2] <= 0
    /\ swift_data[1][2][2] > 0 /\ swift_data[1][2][3] < 4
    /\ Len(errorbars[1].x) = 1

\* A row with a positive rate dropped for its error alone, at the threshold.
C4_WitnessThreshold ==
    /\ errorbars # <<>>
    /\ \E i \in 1..Len(swift_data[1]) :
         swift_data[1][i][2] > 0 /\ swift_data[1][i][3] = 4
    /\ Len(errorbars[1].x) = Len(swift_data[1]) - 1

\* The single MAXI fetch failed, or its table has not the 9 columns.
MaxiFetchFailed ==
    /\ script = "maxi"
    /\ Len(attempts) >= 1
    /\ \/ attempts[1].outcome = None
       \/ Len(attempts[1].outcome[1][1]) # 9

C5_WitnessParse ==
    /\ MaxiFetchFailed
    /\ attempts[1].outcome # None
    /\ pc = "crashed"

DigitChars == {"0", "1", "2", "3", "4", "5", "6", "7", "8", "9"}

C6_WitnessPositive ==
    /\ maxi_id # None
    /\ object_id[1].pos.dec.sign = 1
    /\ maxi_id[1] = <<"0", "5", "3", "4", "+", "2", "2", "0">>

\* C7: the lower x bound is -start when given (0 included), else the least
\* timestamp of the fetched table; the upper bound is -stop when given,
\* else the greatest timestamp; each decided on its own.
C7_AxisBounds ==
    xlim # None
      => LET t == Column(swift_data[1], 1)
             lo == xlim[1][1]
             hi == xlim[1][2]
         IN  /\ args.start # None => lo = args.start[1]
             /\ args.start = None
                  => /\ \E i \in 1..Len(t) : lo = t[i]
                     /\ \A i \in 1..Len(t) : lo <= t[i]
             /\ args.stop # None => hi = args.stop[1]
             /\ args.stop = None
                  => /\ \E i \in 1..Len(t) : hi = t[i]
                     /\ \A i \in 1..Len(t) : hi >= t[i]

\* -start 0 with no -stop: the bounds are 0 and the greatest timestamp.
C7_Witness ==
    /\ xlim # None
    /\ args.start = Some(0) /\ args.stop = None
    /\ xlim[1] = <<0, 2>>
    /\ Len(swift_data[1]) = 2 /\ swift_data[1][1][1] = 2 /\ swift_data[1][2][1] = 1

\* C8: the i-th fetch is of the i-th candidate URL, weak path first; there
\* are at most two; no fetch follows a successful one; and the value
\* returned after a successful fetch is that fetch's table.
C8_SequentialFallback ==
    script = "swift"
      => /\ Len(attempts) <= 2
         /\ Len(attempts) >= 1 => attempts[1].url.path = WeakPath
         /\ Len(attempts) >= 2 => attempts[2].url.path = StandardPath
         /\ \A i \in 1..Len(attempts) : attempts[i].url.id = source_id(source_name)
         /\ \A i \in 1..Len(attempts) : i < Len(attempts) => attempts[i].outcome = None
         /\ (SwiftReturned /\ attempts[Len(attempts)].outcome # None)
              => swift_data = attempts[Len(attempts)].outcome

\* The weak path succeeded and the run ended with that one fetch.
C8_Witness ==
    /\ script = "swift" /\ pc = "done"
    /\ Len(attempts) = 1
    /\ attempts[1].outcome # None
    /\ attempts[1].url.path = WeakPath

\* The columns (value, error) of the four panels, top to bottom.
BandColumns == << <<4, 5>>, <<6, 7>>, <<8, 9>>, <<2, 3>> >>

\* C9: every panel drawn gets every fetched row, in the fetched order and
\* unchanged: the MJD column as x, the band's value and error columns as y
\* and yerr; a finished plot has the four panels.
C9_MaxiPlotsEveryRow ==
    (script = "maxi" /\ axes # <<>>)
      => LET raw == attempts[1].outcome[1] IN
         /\ Len(axes) <= 4
         /\ shown => Len(axes) = 4
         /\ \A p \in 1..Len(axes) :
              /\ Len(axes[p].x) = Len(raw)
              /\ Len(axes[p].y) = Len(raw)
              /\ Len(axes[p].yerr) = Len(raw)
              /\ \A j \in 1..Len(raw) :
                   /\ axes[p].x[j] = raw[j][1]
                   /\ axes[p].y[j] = raw[j][BandColumns[p][1]]
                   /\ axes[p].yerr[j] = raw[j][BandColumns[p][2]]

\* A finished plot of a table with a row of negative fluxes.
C9_Witness ==
    /\ script = "maxi" /\ pc = "done" /\ shown
    /\ Len(axes) = 4
    /\ Len(data[1]) = 2
    /\ data[1][1][2] < 0 /\ data[1][2][2] > 0

\* C10 (the claim as stated): a Swift run whose fetch returned a table ends
\* with the plot rendered and no unhandled fault, the y-axis upper limit
\* being 1.1 times the greatest filtered rate.
C10_PlotAlwaysRenders ==
    (script = "swift" /\ swift_data # None /\ pc \in {"done", "crashed"})
      => /\ fault = "none"
         /\ shown
         /\ ylim # None

\* What the code does instead: the fault is exactly the case where the
\* filter leaves no row.
C10_FaultIffNothingKept ==
    (script = "swift" /\ swift_data # None /\ pc \in {"done", "crashed"})
      => (fault = "ValueError" <=> Kept(swift_data[1]) = {})
====
